---- MODULE Spec2Model ----
(***************************************************************************)
(* Model of the signalling server of src/src/index.ts (the version that    *)
(* keeps the per-room timer table `rooms`, lines 54-226; lines 1-52 of the  *)
(* file and src/unnamed/part_000 are earlier versions without the table).   *)
(*                                                                         *)
(* Node runs every socket.io handler to completion on one thread, so each  *)
(* handler is one atomic action.  The socket.io adapter (the map from room *)
(* name to the set of socket ids, and each socket's own set of rooms) is   *)
(* library state; it is modelled by what the calls in the source do to it: *)
(* a connecting socket joins the room named by its own id, socket.join is  *)
(* an idempotent insertion that keeps insertion order, and a closing       *)
(* socket fires "disconnecting" BEFORE it is removed from its rooms.       *)
(***************************************************************************)
EXTENDS Integers, Sequences, FiniteSets, TLC

\* ------------------------------------------------------------ bounds ----
MaxConn == 3        \* connections ever accepted
MaxLive == 2        \* connections open at the same time
MaxClock == 2       \* largest value Date.now() takes

\* ------------------------------------------------- program constants ----
DefaultDuration == 60   \* duration: 60
TimerThreshold == 2     \* count >= 2
NoTime == 0             \* startedAt: null (Date.now() is never 0)
Missing == -1           \* undefined: a property that no object on the chain has

\* ------------------------------------------------------- wire values ----
\* A value received from a client: <<kind, rendering>>.  The kind is the
\* typeof of the value, but for null, whose typeof is "object".
Str(s) == <<"string", s>>
Undefined == <<"undefined", "">>
Num(s) == <<"number", s>>
Bool(s) == <<"boolean", s>>
Obj(s) == <<"object", s>>
\* an array: its rendering is the sequence of its elements
Arr(q) == <<"array", q>>
Null == <<"null", "">>

\* typeof v
TypeOf(v) == IF v[1] \in {"null", "unprintable", "array"} THEN "object" ELSE v[1]

\* JavaScript truthiness (the `!room`, `to && sdp` tests)
Truthy(v) ==
    CASE v[1] = "string" -> v[2] # ""
      [] v[1] = "number" -> v[2] \notin {"0", "NaN"}
      [] v[1] = "boolean" -> v[2] = "true"
      [] v[1] = "object" -> TRUE
      [] v[1] = "array" -> TRUE
      [] v[1] = "unprintable" -> TRUE
      [] OTHER -> FALSE

\* Text values carry their characters: <<kind, sequence of characters>>; for
\* a value that is not a string the characters are those String() gives it.
TStr(q) == <<"string", q>>
TUndefined == <<"undefined", <<>> >>
TNull == <<"null", <<>> >>
\* an object whose toString and valueOf are not callable
TUnprintable == <<"unprintable", <<>> >>

\* the characters String.prototype.trim removes: white space and line
\* terminators (those without an escape are written by code point)
WhiteSpace ==
    {" ", "\t", "\n", "\r", "\f", "U+000B", "U+00A0", "U+FEFF", "U+1680",
     "U+2000", "U+2001", "U+2002", "U+2003", "U+2004", "U+2005", "U+2006",
     "U+2007", "U+2008", "U+2009", "U+200A", "U+2028", "U+2029", "U+202F",
     "U+205F", "U+3000"}

IsSpace(c) == c \in WhiteSpace

RECURSIVE TrimStart(_)
TrimStart(q) ==
    IF q = <<>> THEN <<>>
    ELSE IF IsSpace(Head(q)) THEN TrimStart(Tail(q)) ELSE q

RECURSIVE TrimEnd(_)
TrimEnd(q) ==
    IF q = <<>> THEN <<>>
    ELSE IF IsSpace(q[Len(q)]) THEN TrimEnd(SubSeq(q, 1, Len(q) - 1)) ELSE q

\* String.prototype.trim
Trim(q) == TrimEnd(TrimStart(q))

\* String(text ?? "") throws a TypeError
StringThrows(t) == t[1] = "unprintable"

\* String(text ?? ""), when it does not throw
StringOf(t) == IF t[1] \in {"undefined", "null"} THEN <<>> ELSE t[2]

\* mutant: only the leading whitespace is removed
ChatMsgTrimStart(t) == TrimStart(StringOf(t))

\* const msg = String(text ?? "").trim()
ChatMsg(t) == Trim(StringOf(t))

Range(q) == {q[i] : i \in 1..Len(q)}

\* ------------------------------------------------------------ inputs ----
SidNames == <<"c1", "c2", "c3", "c4", "c5", "c6">>
Sids == {SidNames[i] : i \in 1..MaxConn}
RoomNames == {"r1", "r2"}
\* the names that `rooms = {}` finds on Object.prototype without having them
ProtoKeys ==
    {"__proto__", "constructor", "toString", "toLocaleString", "valueOf",
     "hasOwnProperty", "isPrototypeOf", "propertyIsEnumerable",
     "__defineGetter__", "__defineSetter__", "__lookupGetter__",
     "__lookupSetter__"}
\* the name the program itself adds to Object.prototype: line 150, run for
\* the room "__proto__", writes Object.prototype.startedAt
AddedKey == "startedAt"
\* the names of this kind that clients name as rooms
ProtoRooms == {"__proto__", "constructor", AddedKey}
RoomKeys == RoomNames \cup ProtoRooms \cup Sids

\* handshake.auth.name as supplied by the i-th client: a string, nothing, a
\* value that is not a string, ...
Handshakes == <<Str("Ann"), Undefined, Num("7"), Str("Bob"), Undefined, Str("Cy")>>

\* room field of join/chat: two room names, the empty string, a missing field,
\* a value of another type
ValidRooms == {Str("r1"), Str("r2")}
InvalidRooms == {Str(""), Undefined, Num("5")}
\* to field of offer/answer/ice-candidate: ids of connections (live or not),
\* a string that is the name of a room, a missing field, a number, an array
\* of one id, an empty array
ToInputs == {Str(SidNames[1]), Str(SidNames[2]), Str("r1"), Undefined, Num("5"),
             Arr(<<Str(SidNames[2])>>), Arr(<<>>)}
\* sdp / candidate field: an object, a missing field, true, null
DataInputs == {Obj("p1"), Undefined, Bool("true"), Null}
\* text field of chat: missing, empty, white space only, text inside white
\* space, null, an object that has no string form
TextInputs == {TUndefined, TStr(<<>>), TStr(<<" ", "\t">>),
               TStr(<<"\n", "h", " ", "i", " ">>), TNull, TUnprintable}

NoPayload == [has |-> FALSE]
JoinPayloads == {NoPayload} \cup
    {[has |-> TRUE, room |-> r] : r \in ValidRooms \cup {Undefined}}
RelayJoinPayloads == {NoPayload} \cup
    {[has |-> TRUE, room |-> r] : r \in {Str("r1")} \cup InvalidRooms}
ChatPayloads == {NoPayload}
    \cup {[has |-> TRUE, room |-> r, text |-> t] : r \in ValidRooms, t \in TextInputs}
    \cup {[has |-> TRUE, room |-> r, text |-> TStr(<<"h">>)] : r \in InvalidRooms}
RoomsChatPayloads ==
    {[has |-> TRUE, room |-> r, text |-> TStr(<<"h">>)] : r \in ValidRooms}
ProtoJoinPayloads == {[has |-> TRUE, room |-> Str(r)] : r \in ProtoRooms}
\* a room field that is the id of the first connection
IdJoinPayloads ==
    {[has |-> TRUE, room |-> r] : r \in {Str("r1"), Str(SidNames[1])}}
IdChatPayloads ==
    {[has |-> TRUE, room |-> r, text |-> TStr(<<"h">>)] :
        r \in {Str("r1"), Str(SidNames[1])}}
RelayPayloads == {NoPayload} \cup
    {[has |-> TRUE, to |-> t, data |-> d] : t \in ToInputs, d \in DataInputs}

\* ------------------------------------------------------------- state ----
VARIABLES
    nextConn,       \* number of connections accepted so far
    sockets,        \* io.sockets.sockets: ids of the live sockets
    authName,       \* socket.handshake.auth.name of each live socket
    adapterRooms,   \* io.sockets.adapter.rooms: room -> ids, insertion order
    socketRooms,    \* socket.rooms of each live socket, insertion order
    rooms,          \* const rooms: Record<string, RoomState>, its own keys
    inherited,      \* startedAt written on what Object.prototype supplies:
                    \* on Object.prototype itself (key "__proto__"), on Object
                    \* (key "constructor"), on a method (the other keys)
    now,            \* Date.now()
    crashed,        \* an exception escaped a handler: the process is gone
    lastOp,         \* the inbound event handled by the last step
    sent,           \* the events emitted by the last step, in order
    timerStarts     \* history: timer-start events per room since it was last empty

vars == <<nextConn, sockets, authName, adapterRooms, socketRooms, rooms,
          inherited, now, crashed, lastOp, sent, timerStarts>>

\* --------------------------------------------------- library helpers ----
Without(q, x) == SelectSeq(q, LAMBDA y : y # x)

\* io.sockets.adapter.rooms.get(room) ?? new Set()
roomSet(ar, room) == IF room \in DOMAIN ar THEN ar[room] ELSE <<>>

\* mutant: an array push, which adds the element again
SetAddAgain(q, x) == Append(q, x)

\* Set.prototype.add on an insertion-ordered set
SetAdd(q, x) == IF x \in Range(q) THEN q ELSE Append(q, x)

\* socket.join(room): adapter side
adapterJoin(ar, sid, room) ==
    IF room \in DOMAIN ar
    THEN [ar EXCEPT ![room] = SetAdd(ar[room], sid)]
    ELSE ar @@ (room :> <<sid>>)

\* adapter side of a socket leaving everything; empty rooms are dropped
adapterDelAll(ar, sid) ==
    LET keep == {r \in DOMAIN ar : Without(ar[r], sid) # <<>>}
    IN  [r \in keep |-> Without(ar[r], sid)]

\* io.to(room): the sockets an emit to `room` reaches
Reach(ar, room) == Range(roomSet(ar, room)) \cap sockets

\* io.to(to) for a value as received: the adapter looks the key up as it is,
\* and every room is named by a string
ReachValue(ar, to) == IF TypeOf(to) = "string" THEN Reach(ar, to[2]) ELSE {}

\* io.to(to) for `to` as received: one room, or an array of rooms (the union
\* of what they reach); with no room at all the emit goes to every socket
ReachTarget(ar, to) ==
    IF to[1] # "array" THEN ReachValue(ar, to)
    ELSE IF to[2] = <<>> THEN sockets
    ELSE UNION {ReachValue(ar, to[2][i]) : i \in 1..Len(to[2])}

\* the name an event to `to` is recorded under: the room, for one room
targetName(to) ==
    IF to[1] # "array" THEN to[2]
    ELSE IF Len(to[2]) = 1 /\ to[2][1][1] # "array" THEN to[2][1][2]
    ELSE "array"

\* ----------------------------------------------------------- helpers ----
\* mutant: auth?.name ?? "Guest", which lets a name of another type through
displayNameNullish(a) == IF a[1] \in {"undefined", "null"} THEN "Guest" ELSE a[2]

\* typeof auth?.name === "string" ? auth.name : "Guest"
displayName(a) == IF TypeOf(a) = "string" THEN a[2] ELSE "Guest"

\* mutant: a member whose name is not a string is left out of the list
participantListNamedOnly(ar, room) ==
    LET ids == SelectSeq(roomSet(ar, room),
                         LAMBDA x : x \in sockets /\ TypeOf(authName[x]) = "string")
    IN  [i \in 1..Len(ids) |->
            [id |-> ids[i], name |-> displayName(authName[ids[i]])]]

\* mutant: the list is cut off after its first entry
participantListFirstOnly(ar, room) ==
    LET ids == roomSet(ar, room)
    IN  [i \in 1..(IF Len(ids) > 1 THEN 1 ELSE Len(ids)) |->
            [id |-> ids[i], name |-> displayName(authName[ids[i]])]]

\* the list built by broadcastParticipants
participantList(ar, room) ==
    LET ids == roomSet(ar, room)
    IN  [i \in 1..Len(ids) |->
            [id |-> ids[i],
             name |-> IF ids[i] \in sockets THEN displayName(authName[ids[i]])
                      ELSE "Guest"]]

\* function broadcastParticipants(room)
broadcastParticipants(ar, room) ==
    [ev |-> "participants", rcpt |-> Reach(ar, room), room |-> room,
     body |-> [participants |-> participantList(ar, room)]]

Init ==
    /\ nextConn = 0
    /\ sockets = {}
    /\ authName = <<>>
    /\ adapterRooms = <<>>
    /\ socketRooms = <<>>
    /\ rooms = <<>>
    /\ inherited = [k \in ProtoKeys |-> Missing]
    /\ now = 1
    /\ crashed = FALSE
    /\ lastOp = [kind |-> "init"]
    /\ sent = <<>>
    /\ timerStarts = [r \in RoomKeys |-> 0]

\* io.on("connection"): a new socket, in the room named by its own id
Connect(a) ==
    /\ ~crashed
    /\ a = Handshakes[nextConn + 1]
    /\ nextConn < MaxConn
    /\ Cardinality(sockets) < MaxLive
    /\ LET sid == SidNames[nextConn + 1]
       IN  /\ nextConn' = nextConn + 1
           /\ sockets' = sockets \cup {sid}
           /\ authName' = authName @@ (sid :> a)
           /\ adapterRooms' = adapterJoin(adapterRooms, sid, sid)
           /\ socketRooms' = socketRooms @@ (sid :> <<sid>>)
           /\ lastOp' = [kind |-> "connection", sid |-> sid]
    /\ sent' = <<>>
    /\ UNCHANGED <<rooms, inherited, now, crashed, timerStarts>>

\* time passes
Tick ==
    /\ ~crashed
    /\ now < MaxClock
    /\ now' = now + 1
    /\ lastOp' = [kind |-> "tick"]
    /\ sent' = <<>>
    /\ UNCHANGED <<nextConn, sockets, authName, adapterRooms, socketRooms,
                   rooms, inherited, crashed, timerStarts>>

\* the outcome of an exception thrown inside a handler: nothing catches it
Crash(kind, sid, p) ==
    /\ crashed' = TRUE
    /\ lastOp' = [kind |-> kind, sid |-> sid, msg |-> p]
    /\ sent' = <<>>
    /\ UNCHANGED <<nextConn, sockets, authName, adapterRooms, socketRooms,
                   rooms, inherited, now, timerStarts>>

\* if (!room || typeof room !== "string") return;
roomRejected(room) == ~Truthy(room) \/ TypeOf(room) # "string"

\* roomState.startedAt of a value that Object.prototype supplies: its own
\* property, else the one of Object.prototype (the value under the added
\* name is a number, which has no property of its own)
inheritedStartedAt(inh, key) ==
    IF key \in ProtoKeys /\ inh[key] # Missing THEN inh[key]
    ELSE inh["__proto__"]

\* the names rooms inherits: those of Object.prototype, and startedAt once
\* the program has written it there
inheritedKeys(inh) ==
    ProtoKeys \cup (IF inh["__proto__"] # Missing THEN {AddedKey} ELSE {})

\* rooms[room] is truthy: an own record, or a name found on Object.prototype
hasRoomState(rs, inh, room) ==
    room \in DOMAIN rs \/ room \in inheritedKeys(inh)

\* const roomState = rooms[room], read as { startedAt, duration }
roomStateOf(rs, inh, room) ==
    IF room \in DOMAIN rs THEN rs[room]
    ELSE [startedAt |-> inheritedStartedAt(inh, room), duration |-> Missing]

\* if (!rooms[room]) rooms[room] = { startedAt: null, duration: 60 }
initRoomState(rs, inh, room) ==
    IF hasRoomState(rs, inh, room) THEN rs
    ELSE rs @@ (room :> [startedAt |-> NoTime, duration |-> DefaultDuration])

\* !roomState.startedAt
notStarted(roomState) == roomState.startedAt \in {NoTime, Missing}

\* mutant: the timer rule without its "not started yet" test
timerFiresWheneverTwo(count, roomState) ==
    count >= TimerThreshold

\* if (count >= 2 && !roomState.startedAt)
timerFires(count, roomState) ==
    count >= TimerThreshold /\ notStarted(roomState)

\* { startedAt: roomState.startedAt, duration: roomState.duration }
timerPayload(roomState) ==
    [startedAt |-> roomState.startedAt, duration |-> roomState.duration]

\* mutant: the start time is written on every join
stampRoomEveryJoin(rs, room, fire) ==
    IF room \in DOMAIN rs THEN [rs EXCEPT ![room].startedAt = now] ELSE rs

\* roomState.startedAt = Date.now(), when the timer fires and roomState is a
\* record of the table
stampRoom(rs, room, fire) ==
    IF fire /\ room \in DOMAIN rs
    THEN [rs EXCEPT ![room].startedAt = now] ELSE rs

\* roomState.startedAt = Date.now(), when the timer fires and roomState is
\* what Object.prototype supplied
stampInherited(rs, inh, room, fire) ==
    IF fire /\ room \notin DOMAIN rs /\ room \in ProtoKeys
    THEN [inh EXCEPT ![room] = now] ELSE inh

\* io.to(room).emit("timer-start", ...), when the timer fires
timerStartEvents(fire, ar, room, roomState) ==
    IF fire
    THEN <<[ev |-> "timer-start", rcpt |-> Reach(ar, room), room |-> room,
            body |-> timerPayload(roomState)]>>
    ELSE <<>>

\* mutant: timer-state built from the room as it was before the timer rule ran
timerStateEventStale(sid, room, roomState) ==
    [ev |-> "timer-state", rcpt |-> {sid}, room |-> room,
     body |-> timerPayload(roomStateOf(initRoomState(rooms, inherited, room), inherited, room))]

\* socket.emit("timer-state", ...)
timerStateEvent(sid, room, roomState) ==
    [ev |-> "timer-state", rcpt |-> {sid}, room |-> room,
     body |-> timerPayload(roomState)]

\* socket.to(room).emit("need-offer", { targetId: socket.id }): the broadcast
\* leaves out the ROOM named socket.id, that is every socket in that room
needOfferEvent(ar, sid, room) ==
    [ev |-> "need-offer", rcpt |-> Reach(ar, room) \ Reach(ar, sid), room |-> room,
     body |-> [targetId |-> sid]]

\* mutant: the participants broadcast moved ahead of the timer events
joinEventsBroadcastFirst(fire, ar, sid, room, roomState) ==
    <<broadcastParticipants(ar, room)>> \o
    timerStartEvents(fire, ar, room, roomState) \o
    <<timerStateEvent(sid, room, roomState),
      needOfferEvent(ar, sid, room)>>

\* the emits of the join handler, in program order
joinEvents(fire, ar, sid, room, roomState) ==
    timerStartEvents(fire, ar, room, roomState) \o
    <<timerStateEvent(sid, room, roomState),
      needOfferEvent(ar, sid, room),
      broadcastParticipants(ar, room)>>

\* socket.on("join", ({ room }) => ...)
Join(s, p) ==
    /\ ~crashed
    /\ s \in sockets
    /\ IF ~p.has THEN Crash("join", s, p)
       ELSE
       /\ lastOp' = [kind |-> "join", sid |-> s, msg |-> p]
       /\ IF roomRejected(p.room)
          THEN /\ sent' = <<>>
               /\ UNCHANGED <<adapterRooms, socketRooms, rooms, inherited,
                              timerStarts>>
          ELSE LET room == p.room[2]
                   ar == adapterJoin(adapterRooms, s, room)
                   rs1 == initRoomState(rooms, inherited, room)
                   count == Len(roomSet(ar, room))
                   fire == timerFires(count, roomStateOf(rs1, inherited, room))
                   rs2 == stampRoom(rs1, room, fire)
                   inh2 == stampInherited(rs1, inherited, room, fire)
                   roomState == roomStateOf(rs2, inh2, room)
               IN  /\ adapterRooms' = ar
                   /\ socketRooms' = [socketRooms EXCEPT ![s] = SetAdd(@, room)]
                   /\ rooms' = rs2
                   /\ inherited' = inh2
                   /\ timerStarts' = IF fire
                                     THEN [timerStarts EXCEPT ![room] = @ + 1]
                                     ELSE timerStarts
                   /\ sent' = joinEvents(fire, ar, s, room, roomState)
       /\ UNCHANGED <<nextConn, sockets, authName, now, crashed>>

\* mutant: chat initialises the room record the way join does
ChatInitsRoom(s, p) ==
    /\ ~crashed
    /\ s \in sockets
    /\ IF ~p.has \/ (~roomRejected(p.room) /\ StringThrows(p.text))
       THEN Crash("chat", s, p)
       ELSE
       /\ lastOp' = [kind |-> "chat", sid |-> s, msg |-> p]
       /\ rooms' = IF roomRejected(p.room) THEN rooms
                   ELSE initRoomState(rooms, inherited, p.room[2])
       /\ sent' = IF roomRejected(p.room) \/ ChatMsg(p.text) = <<>>
                  THEN <<>>
                  ELSE <<[ev |-> "chat", rcpt |-> Reach(adapterRooms, p.room[2]),
                          room |-> p.room[2],
                          body |-> [name |-> displayName(authName[s]),
                                    from |-> s,
                                    text |-> ChatMsg(p.text)]]>>
       /\ UNCHANGED <<nextConn, sockets, authName, adapterRooms, socketRooms,
                      inherited, now, crashed, timerStarts>>

\* socket.on("chat", ({ room, text }) => ...)
Chat(s, p) ==
    /\ ~crashed
    /\ s \in sockets
    /\ IF ~p.has \/ (~roomRejected(p.room) /\ StringThrows(p.text))
       THEN Crash("chat", s, p)
       ELSE
       /\ lastOp' = [kind |-> "chat", sid |-> s, msg |-> p]
       /\ sent' = IF roomRejected(p.room) \/ ChatMsg(p.text) = <<>>
                  THEN <<>>
                  ELSE <<[ev |-> "chat", rcpt |-> Reach(adapterRooms, p.room[2]),
                          room |-> p.room[2],
                          body |-> [name |-> displayName(authName[s]),
                                    from |-> s,
                                    text |-> ChatMsg(p.text)]]>>
       /\ UNCHANGED <<nextConn, sockets, authName, adapterRooms, socketRooms,
                      rooms, inherited, now, crashed, timerStarts>>

\* if (to && sdp) io.to(to).emit(kind, { from: socket.id, sdp })
Relay(kind, s, p) ==
    /\ ~crashed
    /\ s \in sockets
    /\ IF ~p.has THEN Crash(kind, s, p)
       ELSE
       /\ lastOp' = [kind |-> kind, sid |-> s, msg |-> p]
       /\ sent' = IF Truthy(p.to) /\ Truthy(p.data)
                  THEN <<[ev |-> kind, rcpt |-> ReachTarget(adapterRooms, p.to),
                          room |-> targetName(p.to),
                          body |-> [from |-> s, data |-> p.data]]>>
                  ELSE <<>>
       /\ UNCHANGED <<nextConn, sockets, authName, adapterRooms, socketRooms,
                      rooms, inherited, now, crashed, timerStarts>>

\* socket.on("offer", ({ to, sdp }) => ...)
Offer(s, p) == Relay("offer", s, p)

\* socket.on("answer", ({ to, sdp }) => ...)
Answer(s, p) == Relay("answer", s, p)

\* socket.on("ice-candidate", ({ to, candidate }) => ...)
IceCandidate(s, p) == Relay("ice-candidate", s, p)

\* the rooms the "disconnecting" loop visits: socket.rooms but the own-id room
visitedRooms(sid) == Without(socketRooms[sid], sid)

\* const size = io.sockets.adapter.rooms.get(room)?.size ?? 0, read inside the
\* "disconnecting" handler, when the closing socket is still in its rooms
sizeAtDisconnecting(room) == Len(roomSet(adapterRooms, room))

\* if (size === 0) delete rooms[room]
roomsAfterDisconnecting(sid) ==
    LET gone == {r \in Range(visitedRooms(sid)) : sizeAtDisconnecting(r) = 0}
    IN  [r \in (DOMAIN rooms) \ gone |-> rooms[r]]

\* the participants events of the "disconnecting" loop, one per visited room
disconnectingEvents(sid) ==
    LET rs == visitedRooms(sid)
    IN  [i \in 1..Len(rs) |-> broadcastParticipants(adapterRooms, rs[i])]

\* socket.on("disconnecting", ...) followed by the socket's removal from its
\* rooms and from the server (socket.io runs both in the same call)
Disconnect(s) ==
    /\ ~crashed
    /\ s \in sockets
    /\ lastOp' = [kind |-> "disconnecting", sid |-> s]
    /\ sent' = disconnectingEvents(s)
    /\ rooms' = roomsAfterDisconnecting(s)
    /\ adapterRooms' = adapterDelAll(adapterRooms, s)
    /\ sockets' = sockets \ {s}
    /\ authName' = [x \in sockets \ {s} |-> authName[x]]
    /\ socketRooms' = [x \in sockets \ {s} |-> socketRooms[x]]
    /\ timerStarts' = [r \in RoomKeys |->
                         IF roomSet(adapterDelAll(adapterRooms, s), r) = <<>>
                         THEN 0 ELSE timerStarts[r]]
    /\ UNCHANGED <<nextConn, inherited, now, crashed>>

\* membership lifecycle and timer: connections, joins, disconnects, time
Next ==
    \/ \E a \in Range(Handshakes) : Connect(a)
    \/ Tick
    \/ \E s \in Sids, p \in JoinPayloads : Join(s, p)
    \/ \E s \in Sids : Disconnect(s)

Spec == Init /\ [][Next]_vars

\* messaging: chat and the signalling relay, over the members of room r1
NextRelay ==
    \/ \E a \in Range(Handshakes) : Connect(a)
    \/ \E s \in Sids, p \in RelayJoinPayloads : Join(s, p)
    \/ \E s \in Sids, p \in ChatPayloads : Chat(s, p)
    \/ \E s \in Sids, p \in RelayPayloads : Offer(s, p)
    \/ \E s \in Sids, p \in RelayPayloads : Answer(s, p)
    \/ \E s \in Sids, p \in RelayPayloads : IceCandidate(s, p)
    \/ \E s \in Sids : Disconnect(s)

SpecRelay == Init /\ [][NextRelay]_vars

\* two rooms side by side: joins, chats and disconnects over r1 and r2
NextRooms ==
    \/ \E a \in Range(Handshakes) : Connect(a)
    \/ \E s \in Sids, p \in JoinPayloads : Join(s, p)
    \/ \E s \in Sids, p \in RoomsChatPayloads : Chat(s, p)
    \/ \E s \in Sids : Disconnect(s)

SpecRooms == Init /\ [][NextRooms]_vars

\* rooms named by keys of Object.prototype: joins, disconnects, time
NextProto ==
    \/ \E a \in Range(Handshakes) : Connect(a)
    \/ Tick
    \/ \E s \in Sids, p \in ProtoJoinPayloads : Join(s, p)
    \/ \E s \in Sids : Disconnect(s)

SpecProto == Init /\ [][NextProto]_vars

\* a room string that is a connection id: the first connection joins r1, the
\* others join and chat in r1 and in the room named by its id
NextIds ==
    \/ \E a \in Range(Handshakes) : Connect(a)
    \/ \E s \in Sids \ {SidNames[1]}, p \in IdJoinPayloads : Join(s, p)
    \/ Join(SidNames[1], [has |-> TRUE, room |-> Str("r1")])
    \/ \E s \in Sids \ {SidNames[1]}, p \in IdChatPayloads : Chat(s, p)
    \/ \E s \in Sids : Disconnect(s)

SpecIds == Init /\ [][NextIds]_vars

\* ------------------------------------------------------------ claims ----
\* the events of one kind emitted by the last step
EventsOf(kind) == SelectSeq(sent, LAMBDA e : e.ev = kind)

\* the connections that are members of a room
Members(ar, r) == Range(roomSet(ar, r))

\* the ids listed by a participants event, in order
ListIds(e) == [i \in 1..Len(e.body.participants) |-> e.body.participants[i].id]

NoDuplicates(q) == \A i, j \in 1..Len(q) : i # j => q[i] # q[j]

\* a room field that names a room: a non-empty string
NamesRoom(v) == v[1] = "string" /\ v[2] # ""

\* the last step was a join that named a room
ValidJoin(op) == op.kind = "join" /\ op.msg.has /\ NamesRoom(op.msg.room)

\* C1: when a connection disconnects, every participants list emitted for its
\* rooms leaves the disconnecting connection out and lists exactly the
\* connections that remain members of the room.
C1_DisconnectListsRemaining ==
    lastOp.kind = "disconnecting" =>
        \A i \in 1..Len(sent) :
            /\ lastOp.sid \notin Range(ListIds(sent[i]))
            /\ Range(ListIds(sent[i])) = Members(adapterRooms, sent[i].room)

\* C2: after a join or a disconnect, no record of the rooms table belongs to a
\* room without members.
C2_NoRecordForEmptyRoom ==
    lastOp.kind \in {"join", "disconnecting"} =>
        \A r \in DOMAIN rooms : Members(adapterRooms, r) # {}

\* C3: timer-start is emitted at most once per room lifetime (the time during
\* which the room has members), and only by a join that takes the member
\* count of the room from below 2 to at least 2.
C3_TimerStartOncePerLifetime ==
    /\ [](\A r \in RoomKeys : timerStarts[r] <= 1)
    /\ [][\A i \in 1..Len(sent') :
            sent'[i].ev = "timer-start" =>
                /\ ValidJoin(lastOp')
                /\ sent'[i].room = lastOp'.msg.room[2]
                /\ Len(EventsOf("timer-start")') = 1
                /\ timerStarts[sent'[i].room] = 0
                /\ Cardinality(Members(adapterRooms, sent'[i].room)) < 2
                /\ Cardinality(Members(adapterRooms', sent'[i].room)) >= 2]_vars

\* C3 witness: a join has just emitted the timer-start of a room of two
C3_Witness ==
    /\ ValidJoin(lastOp)
    /\ Len(EventsOf("timer-start")) = 1
    /\ timerStarts[lastOp.msg.room[2]] = 1
    /\ Cardinality(Members(adapterRooms, lastOp.msg.room[2])) = 2

\* C4: a join into a room that all members have left sees a fresh room: its
\* timer-state carries startedAt = none and duration = 60, and timer-start is
\* emitted again by the join that next brings the room to 2 members.
C4_FreshRoomAfterEmpty ==
    [][ValidJoin(lastOp') =>
        LET room == lastOp'.msg.room[2]
        IN  /\ Members(adapterRooms, room) = {} =>
                \A i \in 1..Len(sent') :
                    sent'[i].ev = "timer-state" =>
                        /\ sent'[i].body.startedAt = NoTime
                        /\ sent'[i].body.duration = DefaultDuration
            /\ ( /\ timerStarts[room] = 0
                 /\ Cardinality(Members(adapterRooms, room)) < 2
                 /\ Cardinality(Members(adapterRooms', room)) >= 2 )
               => Len(EventsOf("timer-start")') = 1]_vars

\* C5: after a valid join, one participants event has been emitted; it goes to
\* every member of the room, the joiner included, and lists every member of
\* the room once and nobody else.
C5_JoinBroadcastsMembership ==
    ValidJoin(lastOp) =>
        LET room == lastOp.msg.room[2]
            evs == EventsOf("participants")
        IN  /\ Len(evs) = 1
            /\ sent[Len(sent)] = evs[1]
            /\ evs[1].room = room
            /\ lastOp.sid \in evs[1].rcpt
            /\ evs[1].rcpt = Members(adapterRooms, room)
            /\ Range(ListIds(evs[1])) = Members(adapterRooms, room)
            /\ NoDuplicates(ListIds(evs[1]))

\* C5 witness: a join into a room that already had a member, three joins in
C5_Witness ==
    /\ ValidJoin(lastOp)
    /\ Len(EventsOf("participants")) = 1
    /\ Len(ListIds(EventsOf("participants")[1])) = 2
    /\ lastOp.sid = ListIds(EventsOf("participants")[1])[2]

\* C6: a valid join emits exactly one timer-state event, to the joiner only,
\* carrying the startedAt and duration that the rooms table gives for the room
\* once the timer rule has run: the values of the timer-start when this join
\* fired it.
C6_TimerStateToJoiner ==
    ValidJoin(lastOp) =>
        LET room == lastOp.msg.room[2]
            evs == EventsOf("timer-state")
            starts == EventsOf("timer-start")
        IN  /\ Len(evs) = 1
            /\ evs[1].rcpt = {lastOp.sid}
            /\ hasRoomState(rooms, inherited, room)
            /\ evs[1].body.startedAt = roomStateOf(rooms, inherited, room).startedAt
            /\ evs[1].body.duration = roomStateOf(rooms, inherited, room).duration
            /\ \A i \in 1..Len(starts) : starts[i].body = evs[1].body

\* C6 witness: a late joiner of a started room, told the earlier start time
C6_Witness ==
    /\ ValidJoin(lastOp)
    /\ EventsOf("timer-start") = <<>>
    /\ Len(EventsOf("timer-state")) = 1
    /\ EventsOf("timer-state")[1].body.startedAt # NoTime
    /\ EventsOf("timer-state")[1].body.startedAt < now

RelayKinds == {"offer", "answer", "ice-candidate"}

\* the connection id a `to` field gives, if it gives one
TargetId(v) == IF v[1] = "string" THEN {v[2]} ELSE {}

\* C7: a relayed offer, answer or ice-candidate reaches the connection whose
\* id is `to` and nobody else, with from = the sender and the payload as sent,
\* whatever string `to` is.
C7_RelayToTargetOnly ==
    (lastOp.kind \in RelayKinds /\ lastOp.msg.has) =>
        /\ \A i \in 1..Len(sent) :
            /\ sent[i].ev = lastOp.kind
            /\ sent[i].rcpt \subseteq TargetId(lastOp.msg.to)
            /\ sent[i].body.from = lastOp.sid
            /\ sent[i].body.data = lastOp.msg.data
        /\ ( /\ TargetId(lastOp.msg.to) \subseteq sockets
             /\ TargetId(lastOp.msg.to) # {}
             /\ lastOp.msg.data[1] = "object" ) =>
            (Len(sent) = 1 /\ sent[1].rcpt = TargetId(lastOp.msg.to))

\* a message the server must drop: no payload object, a room that is missing
\* or not a string, a relay without its target or without its payload
Malformed(op) ==
    /\ op.kind \in {"join", "chat"} \cup RelayKinds
    /\ \/ ~op.msg.has
       \/ op.kind \in {"join", "chat"} /\ op.msg.room[1] # "string"
       \/ op.kind \in RelayKinds /\ op.msg.to[1] = "undefined"
       \/ op.kind \in RelayKinds /\ op.msg.data[1] = "undefined"

\* C8: a malformed inbound message is dropped silently: nothing is emitted,
\* membership and timer state stay as they were, the connection stays open and
\* the process keeps running.
C8_MalformedDropped ==
    [][Malformed(lastOp') =>
        /\ sent' = <<>>
        /\ ~crashed'
        /\ UNCHANGED <<sockets, adapterRooms, socketRooms, rooms>>]_vars

\* C9: a relay whose target is not the id of a live connection reaches nobody
\* and raises no error.
C9_UnresolvableTargetDropped ==
    ( /\ lastOp.kind \in RelayKinds
      /\ lastOp.msg.has
      /\ ~(lastOp.msg.to[1] = "string" /\ lastOp.msg.to[2] \in sockets) ) =>
        /\ ~crashed
        /\ \A i \in 1..Len(sent) : sent[i].rcpt = {}

\* text made of nothing but white space
Blank(q) == \A i \in 1..Len(q) : q[i] \in WhiteSpace

\* the text between its first and its last character that is not whitespace
Inner(q) ==
    LET ix == {i \in 1..Len(q) : q[i] \notin WhiteSpace}
        lo == CHOOSE i \in ix : \A j \in ix : i <= j
        hi == CHOOSE i \in ix : \A j \in ix : i >= j
    IN  SubSeq(q, lo, hi)

\* C10: a chat whose text is missing, empty or white space only emits
\* nothing; a chat with other text emits one chat event {from, name, text}
\* with the sender's id, the sender's display name and the trimmed text, to
\* every member of the room (the sender too when it is one).  The text is
\* any value that has a string form.
C10_ChatBroadcast ==
    ( /\ lastOp.kind = "chat"
      /\ lastOp.msg.has
      /\ NamesRoom(lastOp.msg.room)
      /\ lastOp.msg.text[1] # "unprintable" ) =>
        LET q == lastOp.msg.text[2]
            from == lastOp.sid
            given == authName[from]
        IN  IF lastOp.msg.text[1] \in {"undefined", "null"} \/ Blank(q)
            THEN sent = <<>>
            ELSE /\ Len(sent) = 1
                 /\ sent[1].ev = "chat"
                 /\ sent[1].rcpt = Members(adapterRooms, lastOp.msg.room[2])
                 /\ sent[1].body.from = from
                 /\ sent[1].body.name = IF given[1] = "string" THEN given[2] ELSE "Guest"
                 /\ sent[1].body.text = Inner(q)

\* C10 witness: a member of a room of two says " h i " and both are told "h i"
C10_Witness ==
    /\ lastOp.kind = "chat"
    /\ Len(sent) = 1
    /\ sent[1].body.text = <<"h", " ", "i">>
    /\ lastOp.sid \in sent[1].rcpt
    /\ Cardinality(sent[1].rcpt) = 2

\* C11: a valid join by J sends need-offer {targetId: J} to every other member
\* of the room and never to J: to nobody when J is the only member.
C11_NeedOfferToOthers ==
    ValidJoin(lastOp) =>
        LET room == lastOp.msg.room[2]
            evs == EventsOf("need-offer")
        IN  /\ Len(evs) = 1
            /\ evs[1].body.targetId = lastOp.sid
            /\ lastOp.sid \notin evs[1].rcpt
            /\ evs[1].rcpt = Members(adapterRooms, room) \ {lastOp.sid}
            /\ Members(adapterRooms, room) = {lastOp.sid} => evs[1].rcpt = {}

\* the kinds of the events emitted by the last step, in order
SentKinds == [i \in 1..Len(sent) |-> sent[i].ev]

\* C12: the events of one join come in the order timer-start (when the timer
\* fires), timer-state, need-offer, participants, and all of them are emitted
\* when the joiner is already a member: the room-wide ones reach it and the
\* list names it.
C12_JoinEffectsInOrder ==
    ValidJoin(lastOp) =>
        LET room == lastOp.msg.room[2]
        IN  /\ lastOp.sid \in Members(adapterRooms, room)
            /\ SentKinds \in {<<"timer-state", "need-offer", "participants">>,
                              <<"timer-start", "timer-state", "need-offer",
                                "participants">>}
            /\ \A i \in 1..Len(sent) :
                /\ sent[i].room = room
                /\ sent[i].ev \in {"timer-start", "participants"} =>
                       lastOp.sid \in sent[i].rcpt
                /\ sent[i].ev = "participants" =>
                       lastOp.sid \in Range(ListIds(sent[i]))

\* C12 witness: a join that fires the timer, all four events emitted
C12_Witness ==
    /\ ValidJoin(lastOp)
    /\ SentKinds = <<"timer-start", "timer-state", "need-offer", "participants">>

\* C13: while a room has timer state its startedAt changes at most once, from
\* none to a timestamp: a timer-start carries the timestamp it sets, and every
\* timer-state of a later join carries that same timestamp, whatever the
\* member count has done in between.
C13_StartedAtFixed ==
    [][ /\ \A r \in RoomNames \cup ProtoRooms :
            (hasRoomState(rooms, inherited, r) /\ hasRoomState(rooms', inherited', r)) =>
                /\ ~notStarted(roomStateOf(rooms, inherited, r)) =>
                       roomStateOf(rooms', inherited', r).startedAt =
                           roomStateOf(rooms, inherited, r).startedAt
                /\ roomStateOf(rooms', inherited', r).duration =
                       roomStateOf(rooms, inherited, r).duration
        /\ \A i \in 1..Len(sent') :
            /\ sent'[i].ev = "timer-start" =>
                /\ sent'[i].body.startedAt \notin {NoTime, Missing}
                /\ sent'[i].body.startedAt =
                       roomStateOf(rooms', inherited', sent'[i].room).startedAt
            /\ ( /\ sent'[i].ev = "timer-state"
                 /\ hasRoomState(rooms, inherited, sent'[i].room)
                 /\ ~notStarted(roomStateOf(rooms, inherited, sent'[i].room)) ) =>
                    sent'[i].body.startedAt =
                        roomStateOf(rooms, inherited, sent'[i].room).startedAt ]_vars

\* C13 witness: the room started earlier, fell to one member and is back at
\* two; the joiner is told the old start time and no timer-start is emitted
C13_Witness ==
    /\ ValidJoin(lastOp)
    /\ Len(roomSet(adapterRooms, lastOp.msg.room[2])) = 2
    /\ roomSet(adapterRooms, lastOp.msg.room[2])[2] = lastOp.sid
    /\ lastOp.sid = SidNames[3]
    /\ EventsOf("timer-start") = <<>>
    /\ EventsOf("timer-state")[1].body.startedAt # NoTime
    /\ EventsOf("timer-state")[1].body.startedAt < now

\* the timer state a lookup of the room in the rooms table gives, or its
\* absence
TimerStateOf(rs, inh, r) ==
    IF hasRoomState(rs, inh, r) THEN <<roomStateOf(rs, inh, r)>> ELSE <<>>

\* the rooms a step concerns: the room named by a join or a chat, the rooms
\* the closing connection was in for a disconnect
ConcernedRooms(op, sr) ==
    CASE op.kind \in {"join", "chat"} ->
            IF op.msg.has /\ NamesRoom(op.msg.room) THEN {op.msg.room[2]} ELSE {}
      [] op.kind = "disconnecting" -> Range(sr[op.sid]) \ {op.sid}
      [] OTHER -> {}

\* C14: a join, chat or disconnect leaves the members and the timer state of
\* every room it does not concern as they were, and each of its room events
\* goes only to connections that are in the event's room, which is one of the
\* rooms the step concerns.
C14_RoomsIndependent ==
    [][lastOp'.kind \in {"join", "chat", "disconnecting"} =>
        LET touched == ConcernedRooms(lastOp', socketRooms)
        IN  /\ \A r \in (RoomNames \cup ProtoRooms) \ touched :
                /\ roomSet(adapterRooms', r) = roomSet(adapterRooms, r)
                /\ TimerStateOf(rooms', inherited', r) =
                       TimerStateOf(rooms, inherited, r)
            /\ \A i \in 1..Len(sent') :
                /\ sent'[i].room \in touched
                /\ sent'[i].rcpt \subseteq
                       Members(adapterRooms, sent'[i].room)
                       \cup Members(adapterRooms', sent'[i].room)]_vars

\* C15: every participants list that is emitted is the membership of its room
\* in one state of the room, the one before or the one after the step that
\* emits it, each member once: never a mix of the two.
C15_ListIsSnapshot ==
    [][\A i \in 1..Len(sent') :
        sent'[i].ev = "participants" =>
            /\ NoDuplicates(ListIds(sent'[i]))
            /\ \/ Range(ListIds(sent'[i])) = Members(adapterRooms, sent'[i].room)
               \/ Range(ListIds(sent'[i])) = Members(adapterRooms', sent'[i].room)]_vars

\* C15 witness: one of two members disconnects and a list of the room is sent
C15_Witness ==
    /\ lastOp.kind = "disconnecting"
    /\ Len(sent) >= 1
    /\ sent[1].ev = "participants"
    /\ Len(ListIds(sent[1])) = 2
    /\ Cardinality(Members(adapterRooms, sent[1].room)) = 1

\* what a connection supplied as its name at the handshake
SuppliedName(sid) ==
    Handshakes[CHOOSE i \in 1..Len(SidNames) : SidNames[i] = sid]

\* the name a connection is to be shown under
ShownName(sid) ==
    IF SuppliedName(sid)[1] = "string" THEN SuppliedName(sid)[2] ELSE "Guest"

\* C16: every participants entry and every chat event shows a connection
\* under the name it supplied at the handshake, or "Guest" when it supplied
\* none or something that is not a string; the list of a join leaves no
\* member out.
C16_NamesFromHandshake ==
    /\ \A i \in 1..Len(sent) :
        /\ sent[i].ev = "participants" =>
              \A j \in 1..Len(sent[i].body.participants) :
                  sent[i].body.participants[j].name =
                      ShownName(sent[i].body.participants[j].id)
        /\ sent[i].ev = "chat" =>
              sent[i].body.name = ShownName(sent[i].body.from)
    /\ ValidJoin(lastOp) =>
          \A i \in 1..Len(sent) :
              sent[i].ev = "participants" =>
                  Members(adapterRooms, sent[i].room) \subseteq Range(ListIds(sent[i]))

\* C16 witness: the connection that supplied a number as its name chats
C16_Witness ==
    /\ lastOp.kind = "chat"
    /\ Len(sent) = 1
    /\ SuppliedName(lastOp.sid)[1] = "number"
    /\ sent[1].body.name = "Guest"

\* the rooms a live connection is Joined in through its own join messages
\* (no connection of SpecIds sends a join that names its own id)
JoinedRooms(x) == Range(socketRooms[x]) \ {x}

\* C17: a room event reaches a connection only if that connection is Joined
\* in the event's room through a join of its own, and a participants list
\* names only such connections; a join or chat by somebody else whose room
\* string is the connection's id changes nothing about that.
C17_EventsOnlyToJoined ==
    \A i \in 1..Len(sent) :
        /\ \A x \in sent[i].rcpt \cap sockets : sent[i].room \in JoinedRooms(x)
        /\ sent[i].ev = "participants" =>
              \A x \in Range(ListIds(sent[i])) \cap sockets :
                  sent[i].room \in JoinedRooms(x)

\* C18: after a join or a disconnect, every room with at least 2 members has
\* a record in the rooms table whose startedAt is set.
C18_TwoMembersStarted ==
    lastOp.kind \in {"join", "disconnecting"} =>
        \A r \in DOMAIN adapterRooms :
            Len(adapterRooms[r]) >= 2 =>
                /\ r \in DOMAIN rooms
                /\ rooms[r].startedAt # NoTime

\* C19: a join by a connection that is already in the room changes neither
\* the members of the room nor its startedAt, and emits no timer-start.
C19_RejoinIdempotent ==
    [][( /\ ValidJoin(lastOp')
         /\ lastOp'.sid \in Members(adapterRooms, lastOp'.msg.room[2]) ) =>
        LET room == lastOp'.msg.room[2]
        IN  /\ roomSet(adapterRooms', room) = roomSet(adapterRooms, room)
            /\ adapterRooms' = adapterRooms
            /\ socketRooms' = socketRooms
            /\ hasRoomState(rooms, inherited, room)
            /\ roomStateOf(rooms', inherited', room).startedAt =
                   roomStateOf(rooms, inherited, room).startedAt
            /\ \A i \in 1..Len(sent') : sent'[i].ev # "timer-start"]_vars

\* C19 witness: the first of two members has just joined the room again
C19_Witness ==
    /\ ValidJoin(lastOp)
    /\ Len(roomSet(adapterRooms, lastOp.msg.room[2])) = 2
    /\ roomSet(adapterRooms, lastOp.msg.room[2])[1] = lastOp.sid
    /\ EventsOf("need-offer")[1].rcpt # {}

\* C20: a chat, offer, answer or ice-candidate message, well-formed or not,
\* leaves the members of every room and the rooms table as they were; a chat
\* creates no record for the room it names.
C20_MessagesKeepState ==
    [][lastOp'.kind \in {"chat"} \cup RelayKinds =>
        /\ adapterRooms' = adapterRooms
        /\ socketRooms' = socketRooms
        /\ sockets' = sockets
        /\ rooms' = rooms
        /\ inherited' = inherited
        /\ DOMAIN rooms' = DOMAIN rooms]_vars

\* C20 witness: a chat names a room that has no record, and none is created
C20_Witness ==
    /\ lastOp.kind = "chat"
    /\ lastOp.msg.has
    /\ lastOp.msg.room = Str("r2")
    /\ Len(sent) = 1
    /\ "r2" \notin DOMAIN rooms
    /\ "r1" \in DOMAIN rooms
====
